---- MODULE Spec2Model ----
(***************************************************************************)
(* The MCP tools of src/main.py: the single-call adapters (get_status,     *)
(* omni_search, search, get_active_note, get_file, update_file) and the    *)
(* composite workflow search_and_find_matching_file.  Every tool           *)
(* invocation is a coroutine; its awaits (the HTTP calls and ctx.error)    *)
(* are the points where invocations interleave.                            *)
(***************************************************************************)
EXTENDS Integers, Sequences, FiniteSets, TLC

\* ------------------------------------------------------------------ bounds
NumInv == 2
MaxResults == 2

Inv == 1..NumInv

\* --------------------------------------------------------------- constants
StatusOK == 200
StatusNoContent == 204
Statuses == {StatusOK, StatusNoContent, 404}

Workflow == "search_and_find_matching_file"
Adapters == {"get_status", "omni_search", "search", "get_active_note", "get_file", "update_file"}

Queries == {"q1", "q2"}
Files == {"a.md", "b.md"}
Texts == {<<"x", "y">>, <<"y", "x">>}
Keywords == {<< >>, <<"x", "y">>, <<"{">>}

\* ------------------------------------------------------------ pure helpers
\* Python's `k in s` on strings: k occurs in s as a contiguous run.
IsSubstring(k, s) ==
    \E o \in 0..Len(s) :
        /\ o + Len(k) <= Len(s)
        /\ \A j \in 1..Len(k) : s[o + j] = k[j]

\* A fetched body as the workflow holds it: file_response.text, or the value
\* of file_response.json().
TextContent(t) == [form |-> "text", body |-> t]
JsonContent(t) == [form |-> "json", body |-> t]
NoContent == [form |-> "none", body |-> << >>]

\* str(content) of a parsed note: the dict's repr, which wraps what the note
\* holds in braces.
StrOf(c) == IF c.form = "json" THEN <<"{">> \o c.body \o <<"}">> ELSE c.body

\* match_keyword in (str(content) if as_json else content)
KeywordInContent(kw, c, asJson) == IsSubstring(kw, IF asJson THEN StrOf(c) ELSE c.body)

\* ------------------------------------------------------- search result items
NoPath == "<none>"
ItemWithPath(f) == [file |-> "record", path |-> f]
ItemEmptyPath == [file |-> "record", path |-> ""]
ItemNoPath == [file |-> "record", path |-> NoPath]
ItemNoFile == [file |-> "absent", path |-> NoPath]
ItemNullFile == [file |-> "null", path |-> NoPath]
ItemScalarFile == [file |-> "scalar", path |-> NoPath]
MalformedItems == {ItemEmptyPath, ItemNoPath, ItemNoFile, ItemNullFile, ItemScalarFile}
Items == {ItemWithPath(f) : f \in Files} \cup MalformedItems

\* item.get("file", {}).get("path"): the second .get raises AttributeError
\* when "file" is present and is not a dict.
PathRaises(item) == item.file \in {"null", "scalar"}
PathOf(item) == IF item.file = "record" THEN item.path ELSE NoPath
\* `not filename`
PathFalsy(p) == p \in {NoPath, ""}
IsCandidate(item) == ~PathRaises(item) /\ ~PathFalsy(PathOf(item))

\* --------------------------------------------------------------- responses
\* client.get/post/put either raises (connect error, timeout) or returns a
\* response with a status code and a body.
HttpExc == [t |-> "exc", status |-> 0, wellformed |-> FALSE, text |-> << >>]
HttpResp(s, w, b) == [t |-> "http", status |-> s, wellformed |-> w, text |-> b]
NoFetch == [t |-> "none", status |-> 0, wellformed |-> FALSE, text |-> << >>]

\* What GET /vault/{filename} can answer under the Accept header of as_json.
FileReplies(asJson) ==
    {HttpExc, HttpResp(404, FALSE, << >>)}
    \cup {HttpResp(StatusOK, TRUE, b) : b \in Texts}
    \cup (IF asJson THEN {HttpResp(StatusOK, FALSE, << >>)} ELSE {})

\* search_response.json(): a parse failure, or a JSON value (null, or a list).
BodyMalformed == [t |-> "malformed", items |-> << >>]
BodyNull == [t |-> "null", items |-> << >>]
BodyList(s) == [t |-> "list", items |-> s]

SeqUpTo(S, n) == UNION {[1..k -> S] : k \in 0..n}

SearchExc == [t |-> "exc", status |-> 0, body |-> BodyMalformed]
SearchResp(s, b) == [t |-> "http", status |-> s, body |-> b]
NoReply == [t |-> "none", status |-> 0, body |-> BodyMalformed]
SearchReplies ==
    {SearchExc}
    \cup {SearchResp(s, BodyNull) : s \in Statuses \ {StatusOK}}
    \cup {SearchResp(StatusOK, b) : b \in {BodyMalformed, BodyNull}}
    \cup {SearchResp(StatusOK, BodyList(s)) : s \in SeqUpTo(Items, MaxResults)}

\* mutant of ResultsFalsy: the emptiness test written as `results is None`
ResultsFalsyNoneOnly(b) == b.t = "null"
\* `not results`
ResultsFalsy(b) == b.t = "null" \/ (b.t = "list" /\ Len(b.items) = 0)

\* ---------------------------------------------------------------- messages
NoMsg == [kind |-> "none", code |-> 0, cause |-> "none"]
\* f"... status code {response.status_code} ..."
StatusMsg(c) == [kind |-> "status", code |-> c, cause |-> "status"]
\* f"...: {str(e)}" for the exception e the handler caught
ExcMsg(cause) == [kind |-> "exception", code |-> 0, cause |-> cause]

\* ------------------------------------------------------------ tool results
NoRet == [kind |-> "none", shape |-> "none", msg |-> NoMsg, filename |-> NoPath,
          content |-> NoContent, keyword |-> << >>]
Failure(shape, m) == [NoRet EXCEPT !.kind = "error", !.shape = shape, !.msg = m]
Success(shape) == [NoRet EXCEPT !.kind = "success", !.shape = shape]
NoResults == [NoRet EXCEPT !.kind = "message", !.shape = "no_results"]
NoMatch(kw) == [NoRet EXCEPT !.kind = "message", !.shape = "no_match", !.keyword = kw]
Match(f, c) == [NoRet EXCEPT !.kind = "match", !.shape = "dict", !.filename = f, !.content = c]

\* ------------------------------------------------------- per-tool constants
SuccessSet(tool) == IF tool = "update_file" THEN {StatusOK, StatusNoContent} ELSE {StatusOK}
ParsesJson(tool, asJson) ==
    CASE tool \in {"get_status", "omni_search", "search"} -> TRUE
      [] tool \in {"get_active_note", "get_file"} -> asJson
      [] OTHER -> FALSE
FailureShape(tool) ==
    CASE tool \in {"omni_search", "search"} -> "list"
      [] tool = "update_file" -> "str"
      [] OTHER -> "dict"
SuccessShape(tool, asJson) ==
    CASE tool \in {"get_status", "omni_search", "search"} -> "json_text"
      [] tool = "update_file" -> "confirmation"
      [] OTHER -> IF asJson THEN "json" ELSE "text"

\* ------------------------------------------------------------------- state
VARIABLES
    pc,        \* where each invocation's coroutine stands
    args,      \* its arguments (and how its ctx behaves)
    reply,     \* the response its search call received
    results,   \* results = search_response.json()
    plan,      \* what the remote answers to the fetch of each result item
    idx,       \* position of `for item in results`
    msg,       \* error_msg
    ret,       \* the value the tool returned
    log,       \* result positions whose file was requested, in request order
    warned,    \* result positions for which logger.warning was called
    nsearch,   \* search requests issued
    nctx,      \* calls of ctx.error made
    inflight,  \* HTTP requests awaiting their response
    remote     \* the remote services, when their responses are fixed

vars == <<pc, args, reply, results, plan, idx, msg, ret, log, warned, nsearch, nctx,
          inflight, remote>>


\* ------------------------------------------------------------- invocations
\* ctx.error is awaited at most twice in one invocation (once in the try
\* body, once in the handler); ctxFail is how many of its first calls raise.
CtxFailures == 0..2

ArgsOf(tool, q, kw, j, c) == [tool |-> tool, query |-> q, keyword |-> kw, as_json |-> j, ctxFail |-> c]
IdleArgs == ArgsOf("none", "q1", << >>, FALSE, 0)

WorkflowArgs == {ArgsOf(Workflow, q, kw, j, c) : q \in Queries, kw \in Keywords, j \in BOOLEAN, c \in CtxFailures}
AdapterArgs ==
    {ArgsOf(t, "q1", << >>, j, c) : t \in {"get_active_note", "get_file"}, j \in BOOLEAN, c \in CtxFailures}
    \cup {ArgsOf(t, "q1", << >>, FALSE, c) : t \in Adapters \ {"get_active_note", "get_file"}, c \in CtxFailures}

\* ------------------------------------------------------------ the remotes
\* Responses not fixed in advance: every call may be answered in any way.
FreeRemote == [fixed |-> FALSE,
               search |-> [q \in Queries |-> NoReply],
               file |-> [f \in Files |-> NoFetch]]

\* The answer of POST /search to invocation i.
SearchRepliesFor(i) ==
    IF remote.fixed THEN {remote.search[args[i].query]} ELSE SearchReplies

\* The answers of GET /vault/{path} for the items of a result list, one per
\* item that names a file.
PlansFor(i, items) ==
    IF remote.fixed
    THEN {[k \in 1..Len(items) |->
              IF IsCandidate(items[k]) THEN remote.file[PathOf(items[k])] ELSE NoFetch]}
    ELSE {p \in [1..Len(items) -> FileReplies(args[i].as_json) \cup {NoFetch}] :
              \A k \in 1..Len(items) : (p[k] = NoFetch) <=> ~IsCandidate(items[k])}

\* The answers an adapter's single call can get.
AdapterReplies ==
    {SearchExc} \cup {SearchResp(s, b) : s \in Statuses, b \in {BodyMalformed, BodyNull}}

\* ------------------------------------------------------------ small steps
Goto(i, l) == pc' = [pc EXCEPT ![i] = l]
Return(i, r) == ret' = [ret EXCEPT ![i] = r] /\ Goto(i, "done")
\* an exception reaches `except Exception as e`
Raise(i, cause) == msg' = [msg EXCEPT ![i] = ExcMsg(cause)] /\ Goto(i, "report_exc")
IsWorkflow(i) == args[i].tool = Workflow
IsAdapter(i) == args[i].tool \in Adapters
\* mutant of ScanList: `results` kept in one variable shared by every
\* invocation (the first invocation's)
ScanListShared(i) == results[1]
\* the list the for loop of invocation i iterates: its own local `results`
ScanList(i) == results[i]
Item(i) == ScanList(i)[idx[i]]
\* mutant of NextCandidate: a `continue` that does not advance the loop
NextCandidateSame(k) == k
\* the loop moves on to the item after position k
NextCandidate(k) == k + 1
\* whether the next call of ctx.error raises
CtxRaises(i) == nctx[i] < args[i].ctxFail
Finished(i) == pc[i] \in {"done", "raised"}

\* ---------------------------------------------------------------- workflow
\* async with httpx.AsyncClient() ...: await client.post(search_url, ...)
WfSearchSend(i) ==
    /\ pc[i] = "start" /\ IsWorkflow(i)
    /\ nsearch' = [nsearch EXCEPT ![i] = @ + 1]
    /\ inflight' = [inflight EXCEPT ![i] = @ \cup {"search"}]
    /\ Goto(i, "await_search")
    /\ UNCHANGED <<args, reply, results, plan, idx, msg, ret, log, warned, nctx, remote>>

WfSearchRaises(i) ==
    /\ pc[i] = "await_search"
    /\ \E r \in SearchRepliesFor(i) :
        /\ r.t = "exc"
        /\ reply' = [reply EXCEPT ![i] = r]
    /\ inflight' = [inflight EXCEPT ![i] = @ \ {"search"}]
    /\ Raise(i, "search_transport")
    /\ UNCHANGED <<args, results, plan, idx, ret, log, warned, nsearch, nctx, remote>>

WfSearchBadStatus(i) ==
    /\ pc[i] = "await_search"
    /\ \E r \in SearchRepliesFor(i) :
        /\ r.t = "http" /\ r.status # StatusOK
        /\ reply' = [reply EXCEPT ![i] = r]
        /\ msg' = [msg EXCEPT ![i] = StatusMsg(r.status)]
    /\ inflight' = [inflight EXCEPT ![i] = @ \ {"search"}]
    /\ Goto(i, "report_try")
    /\ UNCHANGED <<args, results, plan, idx, ret, log, warned, nsearch, nctx, remote>>

WfSearchDecodeError(i) ==
    /\ pc[i] = "await_search"
    /\ \E r \in SearchRepliesFor(i) :
        /\ r.t = "http" /\ r.status = StatusOK /\ r.body.t = "malformed"
        /\ reply' = [reply EXCEPT ![i] = r]
    /\ inflight' = [inflight EXCEPT ![i] = @ \ {"search"}]
    /\ Raise(i, "search_decode")
    /\ UNCHANGED <<args, results, plan, idx, ret, log, warned, nsearch, nctx, remote>>

WfSearchEmpty(i) ==
    /\ pc[i] = "await_search"
    /\ \E r \in SearchRepliesFor(i) :
        /\ r.t = "http" /\ r.status = StatusOK /\ r.body.t # "malformed"
        /\ ResultsFalsy(r.body)
        /\ reply' = [reply EXCEPT ![i] = r]
    /\ inflight' = [inflight EXCEPT ![i] = @ \ {"search"}]
    /\ Return(i, NoResults)
    /\ UNCHANGED <<args, results, plan, idx, msg, log, warned, nsearch, nctx, remote>>

WfSearchResults(i) ==
    /\ pc[i] = "await_search"
    /\ \E r \in SearchRepliesFor(i) :
        /\ r.t = "http" /\ r.status = StatusOK /\ r.body.t # "malformed"
        /\ ~ResultsFalsy(r.body)
        /\ reply' = [reply EXCEPT ![i] = r]
        /\ results' = [results EXCEPT ![i] = r.body.items]
        /\ \E p \in PlansFor(i, r.body.items) : plan' = [plan EXCEPT ![i] = p]
    /\ inflight' = [inflight EXCEPT ![i] = @ \ {"search"}]
    /\ idx' = [idx EXCEPT ![i] = 1]
    /\ Goto(i, "loop")
    /\ UNCHANGED <<args, msg, ret, log, warned, nsearch, nctx, remote>>

\* the for loop is exhausted: the return after it
WfExhausted(i) ==
    /\ pc[i] = "loop" /\ idx[i] > Len(ScanList(i))
    /\ Return(i, NoMatch(args[i].keyword))
    /\ UNCHANGED <<args, reply, results, plan, idx, msg, log, warned, nsearch, nctx, inflight, remote>>

WfItemRaises(i) ==
    /\ pc[i] = "loop" /\ idx[i] <= Len(ScanList(i))
    /\ PathRaises(Item(i))
    /\ Raise(i, "item")
    /\ UNCHANGED <<args, reply, results, plan, idx, ret, log, warned, nsearch, nctx, inflight, remote>>

WfSkipItem(i) ==
    /\ pc[i] = "loop" /\ idx[i] <= Len(ScanList(i))
    /\ ~PathRaises(Item(i)) /\ PathFalsy(PathOf(Item(i)))
    /\ idx' = [idx EXCEPT ![i] = NextCandidate(@)]
    /\ UNCHANGED <<pc, args, reply, results, plan, msg, ret, log, warned, nsearch, nctx, inflight, remote>>

\* await client.get(file_url, ...)
WfFetchSend(i) ==
    /\ pc[i] = "loop" /\ idx[i] <= Len(ScanList(i))
    /\ ~PathRaises(Item(i)) /\ ~PathFalsy(PathOf(Item(i)))
    /\ log' = [log EXCEPT ![i] = Append(@, idx[i])]
    /\ inflight' = [inflight EXCEPT ![i] = @ \cup {"file"}]
    /\ Goto(i, "await_file")
    /\ UNCHANGED <<args, reply, results, plan, idx, msg, ret, warned, nsearch, nctx, remote>>

FileReply(i) == plan[i][idx[i]]
\* content = file_response.json() if as_json else file_response.text
ContentOf(r, asJson) == IF asJson THEN JsonContent(r.text) ELSE TextContent(r.text)

WfFetchRaises(i) ==
    /\ pc[i] = "await_file" /\ FileReply(i).t = "exc"
    /\ inflight' = [inflight EXCEPT ![i] = @ \ {"file"}]
    /\ Raise(i, "fetch_transport")
    /\ UNCHANGED <<args, reply, results, plan, idx, ret, log, warned, nsearch, nctx, remote>>

WfFetchBadStatus(i) ==
    /\ pc[i] = "await_file" /\ FileReply(i).t = "http" /\ FileReply(i).status # StatusOK
    /\ inflight' = [inflight EXCEPT ![i] = @ \ {"file"}]
    /\ warned' = [warned EXCEPT ![i] = Append(@, idx[i])]
    /\ idx' = [idx EXCEPT ![i] = NextCandidate(@)]
    /\ Goto(i, "loop")
    /\ UNCHANGED <<args, reply, results, plan, msg, ret, log, nsearch, nctx, remote>>

WfFetchDecodeError(i) ==
    /\ pc[i] = "await_file" /\ FileReply(i).t = "http" /\ FileReply(i).status = StatusOK
    /\ args[i].as_json /\ ~FileReply(i).wellformed
    /\ inflight' = [inflight EXCEPT ![i] = @ \ {"file"}]
    /\ Raise(i, "fetch_decode")
    /\ UNCHANGED <<args, reply, results, plan, idx, ret, log, warned, nsearch, nctx, remote>>

WfFetchMatch(i) ==
    /\ pc[i] = "await_file" /\ FileReply(i).t = "http" /\ FileReply(i).status = StatusOK
    /\ args[i].as_json => FileReply(i).wellformed
    /\ KeywordInContent(args[i].keyword, ContentOf(FileReply(i), args[i].as_json), args[i].as_json)
    /\ inflight' = [inflight EXCEPT ![i] = @ \ {"file"}]
    /\ Return(i, Match(PathOf(Item(i)), ContentOf(FileReply(i), args[i].as_json)))
    /\ UNCHANGED <<args, reply, results, plan, idx, msg, log, warned, nsearch, nctx, remote>>

WfFetchNoMatch(i) ==
    /\ pc[i] = "await_file" /\ FileReply(i).t = "http" /\ FileReply(i).status = StatusOK
    /\ args[i].as_json => FileReply(i).wellformed
    /\ ~KeywordInContent(args[i].keyword, ContentOf(FileReply(i), args[i].as_json), args[i].as_json)
    /\ inflight' = [inflight EXCEPT ![i] = @ \ {"file"}]
    /\ idx' = [idx EXCEPT ![i] = NextCandidate(@)]
    /\ Goto(i, "loop")
    /\ UNCHANGED <<args, reply, results, plan, msg, ret, log, warned, nsearch, nctx, remote>>

\* ------------------------------------------------- reporting (every tool)
\* in the try body: logger.error; await ctx.error(error_msg); return failure
ReportTryOk(i) ==
    /\ pc[i] = "report_try" /\ ~CtxRaises(i)
    /\ nctx' = [nctx EXCEPT ![i] = @ + 1]
    /\ Return(i, Failure(FailureShape(args[i].tool), msg[i]))
    /\ UNCHANGED <<args, reply, results, plan, idx, msg, log, warned, nsearch, inflight, remote>>

ReportTryRaises(i) ==
    /\ pc[i] = "report_try" /\ CtxRaises(i)
    /\ nctx' = [nctx EXCEPT ![i] = @ + 1]
    /\ Raise(i, "report")
    /\ UNCHANGED <<args, reply, results, plan, idx, ret, log, warned, nsearch, inflight, remote>>

\* in the handler: logger.error; await ctx.error(error_msg); return failure
ReportExcOk(i) ==
    /\ pc[i] = "report_exc" /\ ~CtxRaises(i)
    /\ nctx' = [nctx EXCEPT ![i] = @ + 1]
    /\ Return(i, Failure(FailureShape(args[i].tool), msg[i]))
    /\ UNCHANGED <<args, reply, results, plan, idx, msg, log, warned, nsearch, inflight, remote>>

\* ctx.error raises inside the handler: nothing catches it
ReportExcRaises(i) ==
    /\ pc[i] = "report_exc" /\ CtxRaises(i)
    /\ nctx' = [nctx EXCEPT ![i] = @ + 1]
    /\ Goto(i, "raised")
    /\ UNCHANGED <<args, reply, results, plan, idx, msg, ret, log, warned, nsearch, inflight, remote>>

\* ---------------------------------------------------------------- adapters
AdSend(i) ==
    /\ pc[i] = "start" /\ IsAdapter(i)
    /\ inflight' = [inflight EXCEPT ![i] = @ \cup {"http"}]
    /\ Goto(i, "await_http")
    /\ UNCHANGED <<args, reply, results, plan, idx, msg, ret, log, warned, nsearch, nctx, remote>>

AdRaises(i) ==
    /\ pc[i] = "await_http"
    /\ \E r \in AdapterReplies :
        /\ r.t = "exc"
        /\ reply' = [reply EXCEPT ![i] = r]
    /\ inflight' = [inflight EXCEPT ![i] = @ \ {"http"}]
    /\ Raise(i, "transport")
    /\ UNCHANGED <<args, results, plan, idx, ret, log, warned, nsearch, nctx, remote>>

AdBadStatus(i) ==
    /\ pc[i] = "await_http"
    /\ \E r \in AdapterReplies :
        /\ r.t = "http" /\ r.status \notin SuccessSet(args[i].tool)
        /\ reply' = [reply EXCEPT ![i] = r]
        /\ msg' = [msg EXCEPT ![i] = StatusMsg(r.status)]
    /\ inflight' = [inflight EXCEPT ![i] = @ \ {"http"}]
    /\ Goto(i, "report_try")
    /\ UNCHANGED <<args, results, plan, idx, ret, log, warned, nsearch, nctx, remote>>

AdDecodeError(i) ==
    /\ pc[i] = "await_http"
    /\ \E r \in AdapterReplies :
        /\ r.t = "http" /\ r.status \in SuccessSet(args[i].tool)
        /\ ParsesJson(args[i].tool, args[i].as_json) /\ r.body.t = "malformed"
        /\ reply' = [reply EXCEPT ![i] = r]
    /\ inflight' = [inflight EXCEPT ![i] = @ \ {"http"}]
    /\ Raise(i, "decode")
    /\ UNCHANGED <<args, results, plan, idx, ret, log, warned, nsearch, nctx, remote>>

AdSuccess(i) ==
    /\ pc[i] = "await_http"
    /\ \E r \in AdapterReplies :
        /\ r.t = "http" /\ r.status \in SuccessSet(args[i].tool)
        /\ ParsesJson(args[i].tool, args[i].as_json) => r.body.t # "malformed"
        /\ reply' = [reply EXCEPT ![i] = r]
    /\ inflight' = [inflight EXCEPT ![i] = @ \ {"http"}]
    /\ Return(i, Success(SuccessShape(args[i].tool, args[i].as_json)))
    /\ UNCHANGED <<args, results, plan, idx, msg, log, warned, nsearch, nctx, remote>>

\* ------------------------------------------------------------ specification
InitState(a, rem) ==
    /\ args = a
    /\ remote = rem
    /\ pc = [i \in Inv |-> IF a[i].tool = "none" THEN "idle" ELSE "start"]
    /\ reply = [i \in Inv |-> NoReply]
    /\ results = [i \in Inv |-> << >>]
    /\ plan = [i \in Inv |-> << >>]
    /\ idx = [i \in Inv |-> 0]
    /\ msg = [i \in Inv |-> NoMsg]
    /\ ret = [i \in Inv |-> NoRet]
    /\ log = [i \in Inv |-> << >>]
    /\ warned = [i \in Inv |-> << >>]
    /\ nsearch = [i \in Inv |-> 0]
    /\ nctx = [i \in Inv |-> 0]
    /\ inflight = [i \in Inv |-> {}]

\* One tool call, of any tool with any arguments, against remotes that may
\* answer every request in any way.
Init ==
    \E a \in WorkflowArgs \cup AdapterArgs :
        InitState([i \in Inv |-> IF i = 1 THEN a ELSE IdleArgs], FreeRemote)

WorkflowStep(i) ==
    \/ WfSearchSend(i) \/ WfSearchRaises(i) \/ WfSearchBadStatus(i)
    \/ WfSearchDecodeError(i) \/ WfSearchEmpty(i) \/ WfSearchResults(i)
    \/ WfExhausted(i) \/ WfItemRaises(i) \/ WfSkipItem(i) \/ WfFetchSend(i)
    \/ WfFetchRaises(i) \/ WfFetchBadStatus(i) \/ WfFetchDecodeError(i)
    \/ WfFetchMatch(i) \/ WfFetchNoMatch(i)

ReportStep(i) ==
    \/ ReportTryOk(i) \/ ReportTryRaises(i) \/ ReportExcOk(i) \/ ReportExcRaises(i)

AdapterStep(i) ==
    \/ AdSend(i) \/ AdRaises(i) \/ AdBadStatus(i) \/ AdDecodeError(i) \/ AdSuccess(i)

Next == \E i \in Inv : WorkflowStep(i) \/ ReportStep(i) \/ AdapterStep(i)

Spec == Init /\ [][Next]_vars


\* ------------------------------------------- concurrent workflow invocations
\* Remote services whose responses do not change: what POST /search answers
\* to each query and what GET /vault/{path} answers for each file.
FixedRemote(s1, s2, fa, fb) ==
    [fixed |-> TRUE,
     search |-> [q \in Queries |-> IF q = "q1" THEN s1 ELSE s2],
     file |-> [f \in Files |-> IF f = "a.md" THEN fa ELSE fb]]
NotFound == HttpResp(404, FALSE, << >>)
NoteXY == HttpResp(StatusOK, TRUE, <<"x", "y">>)
NoteYX == HttpResp(StatusOK, TRUE, <<"y", "x">>)
NoteBadJson == HttpResp(StatusOK, FALSE, <<"y", "x">>)
FixedRemotes ==
    { FixedRemote(SearchResp(StatusOK, BodyList(<<ItemWithPath("a.md"), ItemWithPath("b.md")>>)),
                  SearchResp(404, BodyNull), NotFound, NoteXY),
      FixedRemote(SearchResp(StatusOK, BodyList(<<ItemNoFile, ItemWithPath("b.md")>>)),
                  SearchExc, HttpExc, NoteBadJson),
      FixedRemote(SearchResp(StatusOK, BodyList(<<ItemWithPath("b.md"), ItemNullFile>>)),
                  SearchResp(StatusOK, BodyList(<< >>)), NoteXY, NoteYX),
      FixedRemote(SearchResp(StatusOK, BodyMalformed),
                  SearchResp(StatusOK, BodyList(<<ItemWithPath("a.md"), ItemWithPath("a.md")>>)),
                  HttpExc, NoteXY) }

ConcArgs == {ArgsOf(Workflow, q, <<"x", "y">>, j, c) : q \in Queries, j \in BOOLEAN, c \in {0, 1}}

\* Every invocation slot holds a workflow call; all of them run concurrently
\* against the same fixed remotes.
InitConc == \E a \in [Inv -> ConcArgs] : \E rem \in FixedRemotes : InitState(a, rem)
NextConc == \E i \in Inv : WorkflowStep(i) \/ ReportStep(i)
SpecConc == InitConc /\ [][NextConc]_vars

\* --- the workflow run on its own, start to end, as a function of its
\* arguments and the remotes: how it ends (returned or raised) and with what.
Ended(l, r) == [pc |-> l, ret |-> r]
\* the handler, entered after n calls of ctx.error
AloneHandler(a, cause, n) ==
    IF n < a.ctxFail THEN Ended("raised", NoRet)
    ELSE Ended("done", Failure(FailureShape(a.tool), ExcMsg(cause)))
\* the failure return of the try body
AloneStatus(a, code) ==
    IF 0 < a.ctxFail THEN AloneHandler(a, "report", 1)
    ELSE Ended("done", Failure(FailureShape(a.tool), StatusMsg(code)))

RECURSIVE AloneScan(_, _, _, _)
AloneScan(a, rem, items, k) ==
    IF k > Len(items) THEN Ended("done", NoMatch(a.keyword))
    ELSE IF PathRaises(items[k]) THEN AloneHandler(a, "item", 0)
    ELSE IF PathFalsy(PathOf(items[k])) THEN AloneScan(a, rem, items, k + 1)
    ELSE LET r == rem.file[PathOf(items[k])]
             c == ContentOf(r, a.as_json)
         IN  IF r.t = "exc" THEN AloneHandler(a, "fetch_transport", 0)
             ELSE IF r.status # StatusOK THEN AloneScan(a, rem, items, k + 1)
             ELSE IF a.as_json /\ ~r.wellformed THEN AloneHandler(a, "fetch_decode", 0)
             ELSE IF KeywordInContent(a.keyword, c, a.as_json)
                  THEN Ended("done", Match(PathOf(items[k]), c))
             ELSE AloneScan(a, rem, items, k + 1)

Alone(a, rem) ==
    LET r == rem.search[a.query]
    IN  IF r.t = "exc" THEN AloneHandler(a, "search_transport", 0)
        ELSE IF r.status # StatusOK THEN AloneStatus(a, r.status)
        ELSE IF r.body.t = "malformed" THEN AloneHandler(a, "search_decode", 0)
        ELSE IF ResultsFalsy(r.body) THEN Ended("done", NoResults)
        ELSE AloneScan(a, rem, r.body.items, 1)


\* ------------------------------------------------------------------ claims
\* What the claims speak of, read off an invocation's state.
\* the search call failed: it raised, or answered a status other than 200
SearchFailed(i) == reply[i].t = "exc" \/ (reply[i].t = "http" /\ reply[i].status # 200)
\* the search call delivered a JSON value
SearchOk(i) == reply[i].t = "http" /\ reply[i].status = 200 /\ reply[i].body.t # "malformed"
\* the item at position k names a file
Names(i, k) == results[i][k].file = "record" /\ results[i][k].path \in Files
\* the fetch of position k delivers a body that contains the keyword
Hit(i, k) ==
    /\ Names(i, k)
    /\ plan[i][k].t = "http" /\ plan[i][k].status = 200
    /\ args[i].as_json => plan[i][k].wellformed
    /\ IsSubstring(args[i].keyword,
                   IF args[i].as_json THEN <<"{">> \o plan[i][k].text \o <<"}">> ELSE plan[i][k].text)
FirstHit(i, k) == Hit(i, k) /\ \A j \in 1..(k - 1) : ~Hit(i, j)
HitResult(i, k) ==
    Match(results[i][k].path,
          [form |-> IF args[i].as_json THEN "json" ELSE "text", body |-> plan[i][k].text])
\* the positions that name a file, in order
RECURSIVE NamedFrom(_, _)
NamedFrom(i, k) ==
    IF k > Len(results[i]) THEN << >>
    ELSE (IF Names(i, k) THEN <<k>> ELSE << >>) \o NamedFrom(i, k + 1)

\* C1: the workflow returns the filename and content of the first candidate,
\* in search-result order, whose fetched content contains match_keyword,
\* whatever the fetches of the earlier candidates did (here for result lists
\* in which every item names a file: [A(fails), B(contains)] gives B).
C1_FirstMatchReturned ==
    \A i \in Inv :
        (IsWorkflow(i) /\ Finished(i) /\ \A k \in 1..Len(results[i]) : Names(i, k))
        => \A k \in 1..Len(results[i]) :
               FirstHit(i, k) => (pc[i] = "done" /\ ret[i] = HitResult(i, k))

\* C2: a failure while fetching a candidate (bad status, transport failure,
\* malformed body) is never fatal: the workflow ends in a failure only when
\* the search call itself failed (here for result lists none of whose items
\* makes the path extraction raise).
C2_OnlySearchFailureFatal ==
    \A i \in Inv :
        (/\ IsWorkflow(i) /\ Finished(i)
         /\ \A k \in 1..Len(results[i]) : results[i][k].file \in {"record", "absent"}
         /\ pc[i] = "raised" \/ ret[i].kind = "error")
        => ~SearchOk(i)

\* C3: a search that succeeds with an empty result set ends in "no results"
\* (not "no match", not a failure) and fetches no file; and "no results" is
\* returned only for a successful search with an empty result set.
C3_EmptyResultIsNoResults ==
    \A i \in Inv : IsWorkflow(i) =>
        /\ (SearchOk(i) /\ Len(reply[i].body.items) = 0)
           => (pc[i] = "done" /\ ret[i] = NoResults /\ log[i] = << >> /\ nctx[i] = 0)
        /\ (ret[i].kind = "message" /\ ret[i].shape = "no_results")
           => (SearchOk(i) /\ Len(reply[i].body.items) = 0 /\ log[i] = << >>)
        /\ (ret[i].kind = "message" /\ ret[i].shape = "no_match")
           => (SearchOk(i) /\ Len(reply[i].body.items) > 0)
C3_Witness ==
    \E i \in Inv : IsWorkflow(i) /\ pc[i] = "done" /\ ret[i] = NoResults
                   /\ reply[i].body = BodyList(<< >>)

\* C4: when the result list is not empty and no candidate's content contains
\* the keyword, the workflow returns "no match" naming the keyword, having
\* requested every candidate exactly once, in order (here for result lists
\* none of whose items makes the path extraction raise).
C4_NoMatchAfterFullScan ==
    \A i \in Inv :
        (/\ IsWorkflow(i) /\ Finished(i) /\ Len(results[i]) > 0
         /\ \A k \in 1..Len(results[i]) : results[i][k].file \in {"record", "absent"}
         /\ \A k \in 1..Len(results[i]) : ~Hit(i, k))
        => /\ pc[i] = "done" /\ ret[i] = NoMatch(args[i].keyword)
           /\ log[i] = NamedFrom(i, 1)

\* C5: when the search call fails (status other than 200, or transport
\* error) the workflow returns a failure outcome at once: no file is ever
\* requested and what it returns is neither a match nor a message.
C5_SearchFailureImmediate ==
    \A i \in Inv :
        (IsWorkflow(i) /\ SearchFailed(i))
        => /\ log[i] = << >> /\ results[i] = << >>
           /\ pc[i] \in {"report_try", "report_exc"} \/ (pc[i] = "done" /\ ret[i].kind = "error")

\* C6: for every status outside an adapter's success set ({200}; {200, 204}
\* for update_file) the adapter returns a failure outcome that contains the
\* status code, never a success-shaped result.
C6_BadStatusFailureWithCode ==
    \A i \in Inv :
        (/\ IsAdapter(i) /\ Finished(i) /\ reply[i].t = "http"
         /\ reply[i].status \notin (IF args[i].tool = "update_file" THEN {200, 204} ELSE {200}))
        => /\ pc[i] = "done" /\ ret[i].kind = "error"
           /\ ret[i].msg.kind = "status" /\ ret[i].msg.code = reply[i].status

\* C7: a result item without a file path (no `file`, `file` without `path`,
\* `file` null or not a record) is skipped without a fetch and without
\* aborting: when only such items precede the first candidate that contains
\* the keyword, that candidate is returned.
C7_MalformedItemSkipped ==
    \A i \in Inv : IsWorkflow(i) =>
        /\ \A n \in 1..Len(log[i]) : Names(i, log[i][n])
        /\ Finished(i) =>
             \A k \in 1..Len(results[i]) :
                 (Hit(i, k) /\ \A j \in 1..(k - 1) : ~Names(i, j))
                 => (pc[i] = "done" /\ ret[i] = HitResult(i, k) /\ log[i] = <<k>>)

\* C8: every invocation ends with exactly one tool result, a success or a
\* failure carrying a message: no exception raised inside it (reporting
\* included) escapes the tool.
C8_NoFailureEscapes ==
    \A i \in Inv :
        /\ pc[i] # "raised"
        /\ (ret[i].kind # "none") <=> (pc[i] = "done")
        /\ ret[i].kind = "error" => ret[i].msg.kind # "none"

\* C9: the scan is sequential and stops at the first match: at most one
\* request is outstanding, files are requested in result order and at most
\* once each, only for items that name a file, nothing is requested after
\* the match, and exactly one search request is issued.
C9_SequentialShortCircuit ==
    \A i \in Inv : IsWorkflow(i) =>
        /\ Cardinality(inflight[i]) <= 1
        /\ (pc[i] = "await_file") <=> (inflight[i] = {"file"})
        /\ \A m, n \in 1..Len(log[i]) : m < n => log[i][m] < log[i][n]
        /\ \A n \in 1..Len(log[i]) : log[i][n] \in 1..Len(results[i]) /\ Names(i, log[i][n])
        /\ nsearch[i] = (IF pc[i] = "start" THEN 0 ELSE 1)
        /\ ret[i].kind = "match"
           => /\ log[i] # << >> /\ Hit(i, log[i][Len(log[i])])
              /\ ret[i].filename = results[i][log[i][Len(log[i])]].path
              /\ \A n \in 1..(Len(log[i]) - 1) : ~Hit(i, log[i][n])
C9_Witness ==
    \E i \in Inv : /\ IsWorkflow(i) /\ ret[i].kind = "match" /\ log[i] = <<1>>
                   /\ Len(results[i]) = 2 /\ Names(i, 2) /\ Hit(i, 2)

\* C10: under every interleaving of concurrent workflow invocations against
\* remotes whose responses do not change, each invocation ends as it ends
\* when run alone.
C10_SameOutcomeAsAlone ==
    \A i \in Inv : Finished(i) => Ended(pc[i], ret[i]) = Alone(args[i], remote)
C10_Witness ==
    \E i, j \in Inv :
        /\ i # j /\ args[i] # args[j]
        /\ pc[i] = "done" /\ ret[i].kind = "match" /\ Len(log[i]) = 2
        /\ pc[j] = "await_file" /\ nsearch[j] = 1

====
